---- MODULE Spec2Model ----
\* Model of src/main.rs: the size-preserving replacement of a mod .jar file.
\*   find_eocd     locates the ZIP End-Of-Central-Directory record,
\*   pad_zip_file  grows the record's comment to absorb the size difference,
\*   main          writes the padded buffer, or falls back to a raw append.
\* A Vec<u8> is a sequence of bytes (0..255); Rust's 0-based index i is the
\* sequence index i + 1.  A panic (an index out of range) is a result of its
\* own, never a silent read.
EXTENDS Integers, Sequences, FiniteSets, TLC

VARIABLES
    pc,               \* main: "select", "write", "done", "exit"
    replacement_data, \* main: the bytes read from the replacement .jar
    mods,             \* main: sizes of the .jar files in the mods folder
    original_size,    \* main: size of the selected mod file (-1: none yet)
    padding_needed,   \* main: original_size - replacement_size (-1: none yet)
    written,          \* main: bytes written to the target file (NotYet before)
    warned,           \* main: the fallback warning was printed
    pad_calls,        \* main: number of calls of pad_zip_file
    data,             \* core: the buffer handed to find_eocd / pad_zip_file
    padding_size,     \* core: the padding handed to pad_zip_file
    located,          \* core: what find_eocd(data) returned (NotYet before)
    padded            \* core: what pad_zip_file(data, padding_size) returned

vars == <<pc, replacement_data, mods, original_size, padding_needed, written,
          warned, pad_calls, data, padding_size, located, padded>>

mainVars == <<pc, replacement_data, mods, original_size, padding_needed,
              written, warned, pad_calls>>

coreVars == <<data, padding_size, located, padded>>

-----------------------------------------------------------------------------
\* Program constants.

\* 22-byte fixed record + 65535-byte comment: the bounded search window.
SearchWindow == 65557

\* Largest value of the 16-bit comment-length field.
MaxComment == 65535

\* Size of the fixed part of the EOCD record.
EocdFixed == 22

\* Offset of the comment-length field inside the record.
CommentLenOffset == 20

\* b'#', the filler byte of the comment path.
FillerByte == 35

\* 0u8, the filler byte of the raw-append fallback.
ZeroByte == 0

\* The signature 50 4B 05 06.
eocd_signature == <<80, 75, 5, 6>>

-----------------------------------------------------------------------------
\* Values of Option<T> and of a call that panics.

None == [tag |-> "None"]

Some(v) == [tag |-> "Some", val |-> v]

Panic == [tag |-> "Panic"]

NotYet == [tag |-> "NotYet"]

IsSome(r) == r.tag = "Some"

-----------------------------------------------------------------------------
\* Integer and byte helpers.

\* usize::saturating_sub
saturating_sub(a, b) == IF a > b THEN a - b ELSE 0

\* u16::from_le_bytes([b0, b1])
u16_from_le_bytes(b0, b1) == b0 + 256 * b1

\* `n as u16`: truncation to 16 bits
as_u16(n) == n % 65536

\* variant: the bytes in big-endian order
u16_to_le_bytes_swapped(v) == <<v \div 256, v % 256>>

\* u16::to_le_bytes
u16_to_le_bytes(v) == <<v % 256, v \div 256>>

\* vec![b; n]
vec(b, n) == <<>> \o [k \in 1..n |-> b]

\* data[i] for an index the caller has shown to be in range; the panic of an
\* index out of range is decided where the index is formed, see *Panics below.
At(d, i) == IF i < Len(d) THEN d[i + 1] ELSE 0

Max(S) == CHOOSE m \in S : \A x \in S : x <= m

-----------------------------------------------------------------------------
\* find_eocd

\* data[i..i + 4] == eocd_signature (FALSE where the slice would not exist)
SignatureAt(d, i) ==
    /\ i + 4 <= Len(d)
    /\ \A k \in 0..3 : At(d, i + k) = eocd_signature[k + 1]

\* u16::from_le_bytes([data[i + 20], data[i + 21]]) as usize
comment_len(d, i) ==
    u16_from_le_bytes(At(d, i + CommentLenOffset), At(d, i + CommentLenOffset + 1))

\* i + 22 + comment_len <= data.len()
CommentFits(d, i) == i + EocdFixed + comment_len(d, i) <= Len(d)

search_start(d) == saturating_sub(Len(d), SearchWindow)

\* (search_start..data.len().saturating_sub(3))
BoundedRange(d) == search_start(d) .. (saturating_sub(Len(d), 3) - 1)

\* variant: the bounded pass without its i + 22 <= data.len() conjunct
BoundedGuardMissing(d, i) == TRUE

\* the first conjunct of the bounded pass: i + 22 <= data.len()
BoundedGuard(d, i) == i + EocdFixed <= Len(d)

\* the offsets at which the bounded pass would return
BoundedHits(d) ==
    {i \in BoundedRange(d) :
        BoundedGuard(d, i) /\ SignatureAt(d, i) /\ CommentFits(d, i)}

\* (0..data.len().saturating_sub(21))
ThoroughRange(d) == 0 .. (saturating_sub(Len(d), EocdFixed - 1) - 1)

\* the offsets at which the thorough pass would return
ThoroughHits(d) ==
    {i \in ThoroughRange(d) :
        SignatureAt(d, i) /\ i + EocdFixed <= Len(d) /\ CommentFits(d, i)}

\* The first iteration of a reversed loop over lo..hi is hi; the last one it
\* runs is the largest hit, at which it returns (lo when there is no hit).
LastVisited(lo, hits) == IF hits = {} THEN lo ELSE Max(hits)

\* An iteration of the bounded pass indexes outside the buffer.
BoundedPanics(d, hits) ==
    \E i \in LastVisited(search_start(d), hits) .. (saturating_sub(Len(d), 3) - 1) :
        /\ BoundedGuard(d, i)
        /\ \/ i + 4 > Len(d)
           \/ SignatureAt(d, i) /\ i + CommentLenOffset + 2 > Len(d)

\* An iteration of the thorough pass indexes outside the buffer.
ThoroughPanics(d, hits) ==
    \E i \in LastVisited(0, hits) .. (saturating_sub(Len(d), EocdFixed - 1) - 1) :
        \/ i + 4 > Len(d)
        \/ /\ SignatureAt(d, i)
           /\ i + EocdFixed <= Len(d)
           /\ i + CommentLenOffset + 2 > Len(d)

find_eocd(d) ==
    LET bounded == BoundedHits(d)
    IN  IF BoundedPanics(d, bounded) THEN Panic
        ELSE IF bounded # {} THEN Some(Max(bounded))
        ELSE LET thorough == ThoroughHits(d)
             IN  IF ThoroughPanics(d, thorough) THEN Panic
                 ELSE IF thorough # {} THEN Some(Max(thorough))
                 ELSE None

-----------------------------------------------------------------------------
\* pad_zip_file

\* data[eocd_start + 20] = bytes[0]; data[eocd_start + 21] = bytes[1]
SetCommentLen(d, eocd_start, bytes) ==
    SubSeq(d, 1, eocd_start + CommentLenOffset)
        \o bytes
        \o SubSeq(d, eocd_start + CommentLenOffset + 3, Len(d))

\* variant: the field is rewritten but data.extend(padding) is left out
PadAtNoExtend(d, padding, eocd_start) ==
    IF eocd_start + CommentLenOffset + 2 > Len(d) THEN Panic
    ELSE IF comment_len(d, eocd_start) + padding > MaxComment THEN None
    ELSE Some(SetCommentLen(d, eocd_start,
                  u16_to_le_bytes(as_u16(comment_len(d, eocd_start) + padding))))

\* variant: without the new_comment_len > 65535 refusal
PadAtUnchecked(d, padding, eocd_start) ==
    IF eocd_start + CommentLenOffset + 2 > Len(d) THEN Panic
    ELSE Some(SetCommentLen(d, eocd_start,
                  u16_to_le_bytes(as_u16(comment_len(d, eocd_start) + padding)))
              \o vec(FillerByte, padding))

\* the body of `if let Some(eocd_start) = find_eocd(&data)`
PadAt(d, padding, eocd_start) ==
    IF eocd_start + CommentLenOffset + 2 > Len(d) THEN Panic
    ELSE LET current_comment_len == comment_len(d, eocd_start)
             new_comment_len == current_comment_len + padding
         IN  IF new_comment_len > MaxComment THEN None
             ELSE Some(SetCommentLen(d, eocd_start,
                                     u16_to_le_bytes(as_u16(new_comment_len)))
                       \o vec(FillerByte, padding))

\* variant: a zero padding returns the buffer before the record is sought
pad_zip_file_zero_shortcut(d, padding) ==
    IF padding = 0 THEN Some(d)
    ELSE IF padding > MaxComment THEN None
    ELSE LET found == find_eocd(d)
         IN  IF found = Panic THEN Panic
             ELSE IF IsSome(found) THEN PadAt(d, padding, found.val)
             ELSE None

pad_zip_file(d, padding) ==
    IF padding > MaxComment THEN None
    ELSE LET found == find_eocd(d)
         IN  IF found = Panic THEN Panic
             ELSE IF IsSome(found) THEN PadAt(d, padding, found.val)
             ELSE None

-----------------------------------------------------------------------------
\* main, from the selection of the target file on

\* the filter of the directory scan: replacement_size <= size
entries == {size \in mods : Len(replacement_data) <= size}

\* `entries.is_empty()`: nothing to replace
NoSuitableMods ==
    /\ pc = "select"
    /\ entries = {}
    /\ pc' = "exit"
    /\ UNCHANGED <<replacement_data, mods, original_size, padding_needed,
                   written, warned, pad_calls>>
    /\ UNCHANGED coreVars

\* the selection of a mod file and the computation of padding_needed
SelectTarget ==
    /\ pc = "select"
    /\ \E size \in entries :
        /\ ~(Len(replacement_data) > size)
        /\ original_size' = size
        /\ padding_needed' = size - Len(replacement_data)
    /\ pc' = "write"
    /\ UNCHANGED <<replacement_data, mods, written, warned, pad_calls>>
    /\ UNCHANGED coreVars

\* variant: the fallback appends the comment filler instead of zero bytes
RawAppendFiller(d, padding) == d \o vec(FillerByte, padding)

\* the fallback: replacement_data extended by vec![0u8; padding_needed]
RawAppend(d, padding) == d \o vec(ZeroByte, padding)

\* padding_needed > 0 and pad_zip_file returned Some(padded_data)
WritePadded ==
    /\ pc = "write"
    /\ padding_needed > 0
    /\ LET r == pad_zip_file(replacement_data, padding_needed)
       IN  /\ IsSome(r)
           /\ written' = r.val
    /\ pad_calls' = pad_calls + 1
    /\ pc' = "done"
    /\ UNCHANGED <<replacement_data, mods, original_size, padding_needed, warned>>
    /\ UNCHANGED coreVars

\* padding_needed > 0 and pad_zip_file returned None
WriteFallback ==
    /\ pc = "write"
    /\ padding_needed > 0
    /\ pad_zip_file(replacement_data, padding_needed) = None
    /\ warned' = TRUE
    /\ written' = RawAppend(replacement_data, padding_needed)
    /\ pad_calls' = pad_calls + 1
    /\ pc' = "done"
    /\ UNCHANGED <<replacement_data, mods, original_size, padding_needed>>
    /\ UNCHANGED coreVars

\* padding_needed = 0: the replacement is written as it is
WriteDirect ==
    /\ pc = "write"
    /\ ~(padding_needed > 0)
    /\ written' = replacement_data
    /\ pc' = "done"
    /\ UNCHANGED <<replacement_data, mods, original_size, padding_needed,
                   warned, pad_calls>>
    /\ UNCHANGED coreVars

-----------------------------------------------------------------------------
\* The two functions applied to a buffer and a padding of their own.

CallFindEocd ==
    /\ pc = "core"
    /\ located = NotYet
    /\ located' = find_eocd(data)
    /\ UNCHANGED <<data, padding_size, padded>>
    /\ UNCHANGED mainVars

CallPadZipFile ==
    /\ pc = "core"
    /\ padded = NotYet
    /\ padded' = pad_zip_file(data, padding_size)
    /\ UNCHANGED <<data, padding_size, located>>
    /\ UNCHANGED mainVars

-----------------------------------------------------------------------------
\* Inputs.

\* trailing bytes after a record, and bytes of a comment, at most
MaxTrail == 3

\* small paddings and small declared comment lengths, 0..MaxSmall
MaxSmall == 2

\* a 22-byte record that declares a comment of cl bytes
Record(cl) == eocd_signature \o [k \in 1..16 |-> k] \o <<cl % 256, cl \div 256>>

\* every prefix of a record followed by MaxTrail bytes (lengths 0, 1, ..)
TruncatedRecords ==
    {SubSeq(Record(0) \o vec(7, MaxTrail), 1, n) : n \in 0..(EocdFixed + MaxTrail)}

\* what precedes the last record: nothing, a byte, a bare signature, an
\* earlier record, a central-directory header
Prefixes ==
    {<<>>, <<9>>, eocd_signature, Record(0), <<80, 75, 1, 2>> \o vec(0, 20)}

DeclaredLens == (0..MaxSmall) \cup {22, 23, 300, 65534, 65535}

\* the bytes that follow the last record
Comments ==
    {vec(FillerByte, k) : k \in 0..MaxTrail}
        \cup {Record(0), eocd_signature \o vec(0, 19)}

Archives ==
    {pre \o Record(cl) \o com :
        pre \in Prefixes, cl \in DeclaredLens, com \in Comments}

\* buffers without the signature
Unsigned ==
    {vec(0, 22), <<80, 75, 1, 2>> \o vec(0, 30), <<80, 75, 5>> \o vec(0, 30),
     <<80, 75, 5, 7>> \o vec(6, 22), vec(0, 65600)}

\* buffers longer than the bounded search window, or with a comment as long
\* as the format allows; and a 1000-byte archive with an empty comment
Large ==
    {Record(0) \o vec(0, 65536), Record(65535) \o vec(0, 65535),
     Record(65534) \o vec(0, 65534), vec(0, 65536) \o Record(0),
     vec(0, 978) \o Record(0)}

Buffers == TruncatedRecords \cup Archives \cup Unsigned \cup Large

Paddings == (0..MaxSmall) \cup {255, 256, 500, 65535, 65536, 70000}

\* the mods folder: empty, or files one byte smaller than the replacement
\* and files larger by each padding
Folders(d) ==
    {{}, {s \in {Len(d) + k : k \in Paddings \cup {-1}} : s >= 0}}

-----------------------------------------------------------------------------

\* a run of main
MainInit ==
    /\ pc = "select"
    /\ replacement_data \in Buffers
    /\ mods \in Folders(replacement_data)
    /\ original_size = -1
    /\ padding_needed = -1
    /\ written = NotYet
    /\ warned = FALSE
    /\ pad_calls = 0
    /\ data = <<>>
    /\ padding_size = 0
    /\ located = NotYet
    /\ padded = NotYet

\* find_eocd and pad_zip_file called on their own
CoreInit ==
    /\ pc = "core"
    /\ replacement_data = <<>>
    /\ mods = {}
    /\ original_size = -1
    /\ padding_needed = -1
    /\ written = NotYet
    /\ warned = FALSE
    /\ pad_calls = 0
    /\ data \in Buffers
    /\ padding_size \in Paddings
    /\ located = NotYet
    /\ padded = NotYet

Init == MainInit \/ CoreInit

Next ==
    \/ NoSuitableMods
    \/ SelectTarget
    \/ WritePadded
    \/ WriteFallback
    \/ WriteDirect
    \/ CallFindEocd
    \/ CallPadZipFile

Spec == Init /\ [][Next]_vars

-----------------------------------------------------------------------------
\* Properties.

\* the four bytes 50 4B 05 06 stand at offset i of d
HoldsSignature(d, i) ==
    i + 4 <= Len(d) /\ SubSeq(d, i + 1, i + 4) = <<80, 75, 5, 6>>

\* the 16-bit little-endian number at offsets i + 20 and i + 21 of d
DeclaredLen(d, i) == d[i + 21] + 256 * d[i + 22]

\* the record at offset t is well formed: its comment ends the buffer
WellFormedAt(d, t) ==
    /\ t + 22 <= Len(d)
    /\ HoldsSignature(d, t)
    /\ t + 22 + DeclaredLen(d, t) = Len(d)

WellFormedOffsets(d) == {t \in 0..(Len(d) - 22) : WellFormedAt(d, t)}

NoSignature(d) == \A i \in 0..(Len(d) - 4) : ~HoldsSignature(d, i)

\* C1: whichever way main writes the target file (the padded buffer, the raw
\* zero-byte append, or the replacement as it is), the bytes written are
\* len(replacement) + padding_needed long, which is the target's original size.
C1_WrittenLength ==
    pc = "done" =>
        /\ Len(written) = Len(replacement_data) + padding_needed
        /\ Len(written) = original_size

C1_Witness ==
    /\ pc = "done"
    /\ pad_calls = 1
    /\ ~warned
    /\ padding_needed > 1
    /\ Len(written) = original_size

\* C2: an offset returned by find_eocd holds the signature and its declared
\* comment reaches exactly the end of the buffer.
C2_LocatedIsWellFormed ==
    (pc = "core" /\ IsSome(located)) =>
        /\ HoldsSignature(data, located.val)
        /\ located.val + 22 + DeclaredLen(data, located.val) = Len(data)

\* C3: in a buffer with exactly one well-formed record, at offset t,
\* find_eocd returns Some(t).
C3_UniqueRecordFound ==
    (pc = "core" /\ located # NotYet /\ Cardinality(WellFormedOffsets(data)) = 1) =>
        \A t \in WellFormedOffsets(data) : located = Some(t)

\* C4: when find_eocd locates a record at o and its comment length plus the
\* padding is at most 65535, pad_zip_file returns Some(result): result is
\* len(data) + padding long, its bytes o+20, o+21 are the little-endian sum,
\* every other byte of data keeps its place, and the appended bytes are '#'.
C4_PadResult ==
    (/\ pc = "core"
     /\ IsSome(located)
     /\ padded # NotYet
     /\ DeclaredLen(data, located.val) + padding_size <= 65535) =>
        /\ IsSome(padded)
        /\ LET o == located.val
               n == DeclaredLen(data, o) + padding_size
               r == padded.val
           IN  /\ Len(r) = Len(data) + padding_size
               /\ r[o + 21] = n % 256
               /\ r[o + 22] = n \div 256
               /\ \A k \in 1..Len(data) :
                    (k # o + 21 /\ k # o + 22) => r[k] = data[k]
               /\ \A k \in (Len(data) + 1)..Len(r) : r[k] = 35

C4_Witness ==
    /\ pc = "core"
    /\ IsSome(located)
    /\ IsSome(padded)
    /\ located.val > 0
    /\ DeclaredLen(data, located.val) > 0
    /\ DeclaredLen(data, located.val) + padding_size > 256

\* C5: pad_zip_file returns None when the padding exceeds 65535, and when the
\* located record's comment length plus the padding exceeds 65535; a buffer it
\* returns declares the whole sum, never a wrapped one.
C5_RefusesOverflow ==
    (pc = "core" /\ padded # NotYet) =>
        /\ padding_size > 65535 => padded = None
        /\ (IsSome(located)
              /\ DeclaredLen(data, located.val) + padding_size > 65535)
             => padded = None
        /\ (IsSome(located) /\ IsSome(padded)) =>
              DeclaredLen(padded.val, located.val)
                  = DeclaredLen(data, located.val) + padding_size

C5_Witness ==
    /\ pc = "core"
    /\ padded = None
    /\ IsSome(located)
    /\ padding_size <= 65535
    /\ DeclaredLen(data, located.val) > 0
    /\ DeclaredLen(data, located.val) + padding_size > 65535

\* C6: on a buffer that holds the signature nowhere, find_eocd returns None
\* and pad_zip_file returns None whatever the padding; main then warns and
\* writes the replacement bytes followed by padding_needed zero bytes.
C6_NoSignature ==
    /\ (pc = "core" /\ NoSignature(data)) =>
          /\ located \in {NotYet, None}
          /\ padded \in {NotYet, None}
    /\ (pc = "done" /\ NoSignature(replacement_data)) =>
          /\ padding_needed > 0 => (warned /\ pad_calls = 1)
          /\ Len(written) = Len(replacement_data) + padding_needed
          /\ SubSeq(written, 1, Len(replacement_data)) = replacement_data
          /\ \A k \in (Len(replacement_data) + 1)..Len(written) : written[k] = 0

C6_Witness ==
    /\ pc = "done"
    /\ NoSignature(replacement_data)
    /\ Len(replacement_data) >= 22
    /\ padding_needed > 1
    /\ warned
    /\ written[Len(written)] = 0

\* C7: after pad_zip_file pads the record located at o, the comment length
\* read from the result at o+20, o+21 reaches exactly the end of the result.
C7_RoundTrip ==
    (pc = "core" /\ IsSome(located) /\ IsSome(padded)) =>
        located.val + 22 + DeclaredLen(padded.val, located.val) = Len(padded.val)

\* C8 as stated: pad_zip_file(data, 0) returns data unchanged for every
\* buffer, and main with padding_needed = 0 never calls pad_zip_file and
\* writes the replacement as it is.
C8_PadZeroReturnsData ==
    /\ (pc = "core" /\ padding_size = 0 /\ padded # NotYet) => padded = Some(data)
    /\ (pc = "done" /\ padding_needed = 0) =>
          (pad_calls = 0 /\ written = replacement_data)

\* C8 amended: pad_zip_file(data, 0) returns data unchanged when find_eocd
\* locates a record in data and None when it locates none; main with
\* padding_needed = 0 never calls pad_zip_file and writes the replacement as
\* it is.
C8_PadZeroWhenLocated ==
    /\ (pc = "core" /\ padding_size = 0 /\ padded # NotYet /\ located # NotYet) =>
          /\ IsSome(located) => padded = Some(data)
          /\ located = None => padded = None
    /\ (pc = "done" /\ padding_needed = 0) =>
          (pad_calls = 0 /\ written = replacement_data)

C8_Witness ==
    /\ pc = "core"
    /\ padding_size = 0
    /\ IsSome(located)
    /\ DeclaredLen(data, located.val) > 0
    /\ padded = Some(data)

\* C9: every offset find_eocd returns lies in the last 65557 bytes of the
\* buffer.
C9_LocatedInWindow ==
    (pc = "core" /\ IsSome(located)) => located.val >= Len(data) - 65557

\* C10: on a buffer of any length find_eocd and pad_zip_file index no byte
\* outside the buffer (they do not panic), and an offset find_eocd returns
\* leaves room for the 22-byte record.
C10_InBounds ==
    pc = "core" =>
        /\ located # Panic
        /\ padded # Panic
        /\ IsSome(located) => located.val + 22 <= Len(data)

C10_Witness ==
    /\ pc = "core"
    /\ Len(data) >= 4
    /\ Len(data) < 22
    /\ HoldsSignature(data, Len(data) - 4) \/ HoldsSignature(data, 0)
    /\ located = None
    /\ padded = None

====
